---- MODULE Spec2Model ----
(***************************************************************************)
(* Image-to-Video front end: the session state machine of src/App.tsx and  *)
(* the API client of src/services/geminiService.ts (encode, job creation,  *)
(* poll loop, download).                                                   *)
(*                                                                         *)
(* Conventions.                                                            *)
(*  - A nullable value (File | null, string | null, an optional field of   *)
(*    the remote response) is a sequence: <<>> is null/undefined, <<v>> is *)
(*    the value v.                                                         *)
(*  - One step of the model is one run-to-completion turn of the browser's *)
(*    event loop: an event handler, or the continuation of the async task  *)
(*    from one await to the next.  React commits the state updates of a    *)
(*    turn together, so the values at the end of a step are what is shown. *)
(*  - A MIME type and a data URL are sequences of characters, so that      *)
(*    startsWith and split are computed and not assumed.                   *)
(***************************************************************************)
EXTENDS Integers, Sequences, FiniteSets, TLC

VARIABLES
    appState,           \* App.tsx:19
    imageFile,          \* App.tsx:20
    imagePreviewUrl,    \* App.tsx:21
    prompt,             \* App.tsx:22
    generatedVideoUrl,  \* App.tsx:23
    error,              \* App.tsx:24
    loadingMessage,     \* App.tsx:25
    apiKey,             \* process.env.API_KEY, fixed for the session
    tasks,              \* the started and not yet settled handleGenerateVideo tasks
    trace,              \* history: onProgress calls and network calls of the session's run, in order
    renders,            \* history: the (appState, loadingMessage) pairs displayed since the last submit
    lastRequest,        \* history: the payload of the last job-creation call
    lastEvent           \* history: the last handler or continuation that ran, with its input

vars == <<appState, imageFile, imagePreviewUrl, prompt, generatedVideoUrl, error,
          loadingMessage, apiKey, tasks, trace, renders, lastRequest, lastEvent>>

uiVars == <<appState, imageFile, imagePreviewUrl, prompt, generatedVideoUrl, error,
            loadingMessage>>

-----------------------------------------------------------------------------
(* Bounds of the model *)

\* poll attempts explored in one run (more than 7, so that the message list wraps)
MaxPolls == 9

\* tasks the model can hold in flight at once (the code is expected to need one)
MaxTasks == 2

-----------------------------------------------------------------------------
(* Values *)

Null == <<>>
Some(v) == <<v>>
IsNull(o) == o = <<>>
Val(o) == o[1]

IDLE == "IDLE"
GENERATING == "GENERATING"
SUCCESS == "SUCCESS"
ERROR == "ERROR"
AppStates == {IDLE, GENERATING, SUCCESS, ERROR}

\* JavaScript truthiness of a string: '' is falsy
TruthyStr(s) == s # ""

\* JavaScript truthiness of string | null | undefined
TruthyOpt(o) == ~IsNull(o) /\ TruthyStr(Val(o))

ImagePrefix == <<"i", "m", "a", "g", "e", "/">>

\* mutant: the last character of the prefix is not compared
StartsWithAllButLast(s, p) ==
    Len(s) >= Len(p) - 1 /\ SubSeq(s, 1, Len(p) - 1) = SubSeq(p, 1, Len(p) - 1)

\* String.prototype.startsWith on character sequences
StartsWith(s, p) == Len(s) >= Len(p) /\ SubSeq(s, 1, Len(p)) = p

TypePng == <<"i", "m", "a", "g", "e", "/", "p", "n", "g">>
TypeJpeg == <<"i", "m", "a", "g", "e", "/", "j", "p", "e", "g">>
TypePlain == <<"t", "e", "x", "t", "/", "p", "l", "a", "i", "n">>
TypeImageNoSlash == <<"i", "m", "a", "g", "e">>
TypeUnknown == <<>>

\* The files a user can pick: a type and the content (as its base64 digits)
Files ==
    { [type |-> TypePng, b64 |-> <<"Q", "U", "I", "=">>],
      [type |-> TypeJpeg, b64 |-> <<>>],
      [type |-> TypePlain, b64 |-> <<"Q", "Q", "=", "=">>],
      [type |-> TypeImageNoSlash, b64 |-> <<"Q", "U", "I", "=">>],
      [type |-> TypeUnknown, b64 |-> <<"Q", "U", "I", "=">>] }

\* The texts a user can leave in the prompt box
Prompts == {"", " ", "a cat walking"}

\* process.env.API_KEY: undefined, '' or a key
ApiKeys == {Null, Some(""), Some("KEY")}

\* URL.createObjectURL: an opaque reference to the object it was made from
CreateObjectURL(obj) == [blob |-> obj]

MsgInvalidFile == "Please upload a valid image file (e.g., PNG, JPG, WEBP)."
MsgValidation == "Please upload an image and provide a prompt."
MsgPreparing == "Preparing your image..."
MsgUnknown == "An unknown error occurred during video generation."
MsgNoApiKey == "API key not found. Please ensure the API_KEY environment variable is set."
MsgInitializing == "Initializing video generation..."
MsgStarted == "Video generation started. This may take a few minutes."
MsgNoLink == "Video generation failed or did not return a valid download link."
MsgDownloading == "Downloading generated video..."
MsgDownloadFailedPrefix == "Failed to download video: "

progressMessages ==
    << "Warming up the AI generators...",
       "Analyzing image composition...",
       "Dreaming up video frames...",
       "Stitching scenes together...",
       "Applying cinematic effects...",
       "Rendering the final cut...",
       "Almost there, adding final touches..." >>

NoOp == [done |-> FALSE, uri |-> Null]
NoFile == [type |-> <<>>, b64 |-> <<>>]

\* a history record: the handler or continuation h that ran and its input (the remote
\* answer op, a text, or the picked file)
Event(h, op, text) == [h |-> h, op |-> op, text |-> text, file |-> NoFile, ok |-> TRUE]
FileEvent(h, file, text) == [h |-> h, op |-> NoOp, text |-> text, file |-> file, ok |-> TRUE]
ResponseEvent(h, op, resp) ==
    [h |-> h, op |-> op, text |-> resp.statusText, file |-> NoFile, ok |-> resp.ok]

Render(st, msg) == [st |-> st, msg |-> msg]

Progress(msg) == [ev |-> "progress", arg |-> msg]
Call(kind, arg) == [ev |-> kind, arg |-> arg]

-----------------------------------------------------------------------------
Init ==
    /\ appState = IDLE
    /\ imageFile = Null
    /\ imagePreviewUrl = Null
    /\ prompt = ""
    /\ generatedVideoUrl = Null
    /\ error = Null
    /\ loadingMessage = ""
    /\ apiKey \in ApiKeys
    /\ tasks = <<>>
    /\ trace = <<>>
    /\ renders = <<Render(IDLE, "")>>
    /\ lastRequest = Null
    /\ lastEvent = Event("init", NoOp, "")

-----------------------------------------------------------------------------
(* renderContent: which controls exist in which state *)

\* mutant: the inputs stay on screen while a generation runs
InputsRenderedWhileGenerating == appState \in {IDLE, GENERATING}

\* the file input and the textarea are rendered in the IDLE view only
InputsRendered == appState = IDLE

\* mutant: the button is also offered while a generation runs
SubmitRenderedWhileGenerating == appState \in {IDLE, GENERATING}

\* the "Generate Video" button is rendered in the IDLE view only
SubmitRendered == appState = IDLE

\* the button's disabled attribute (the handler repeats the test, see SubmitInvalid)
SubmitDisabled == IsNull(imageFile) \/ ~TruthyStr(prompt)

\* mutant: a reset button is also offered while a generation runs
ResetRenderedWhileGenerating == appState \in {GENERATING, SUCCESS, ERROR}

\* the "Create Another Video" / "Try Again" button
ResetRendered == appState \in {SUCCESS, ERROR}

-----------------------------------------------------------------------------
(* handleImageChange *)

\* e.target.files?.[0] is undefined: nothing is set
HandleImageChangeNoFile ==
    /\ InputsRendered
    /\ lastEvent' = Event("imageChangeNoFile", NoOp, "")
    /\ UNCHANGED <<uiVars, apiKey, tasks, trace, renders, lastRequest>>

\* mutant: the non-image branch forgets to clear the preview (line 38 left out)
HandleImageChangeKeepsPreview(file) ==
    /\ InputsRendered
    /\ IF StartsWith(file.type, ImagePrefix)
         THEN /\ imageFile' = Some(file)
              /\ imagePreviewUrl' = Some(CreateObjectURL(file))
              /\ error' = Null
         ELSE /\ error' = Some(MsgInvalidFile)
              /\ imageFile' = Null
              /\ imagePreviewUrl' = imagePreviewUrl
    /\ lastEvent' = FileEvent("imageChange", file,
                              IF IsNull(imageFile) THEN "no image before" ELSE "image before")
    /\ UNCHANGED <<appState, prompt, generatedVideoUrl, loadingMessage, apiKey, tasks,
                   trace, renders, lastRequest>>

HandleImageChange(file) ==
    /\ InputsRendered
    /\ IF StartsWith(file.type, ImagePrefix)
         THEN /\ imageFile' = Some(file)
              /\ imagePreviewUrl' = Some(CreateObjectURL(file))
              /\ error' = Null
         ELSE /\ error' = Some(MsgInvalidFile)
              /\ imageFile' = Null
              /\ imagePreviewUrl' = Null
    /\ lastEvent' = FileEvent("imageChange", file,
                              IF IsNull(imageFile) THEN "no image before" ELSE "image before")
    /\ UNCHANGED <<appState, prompt, generatedVideoUrl, loadingMessage, apiKey, tasks,
                   trace, renders, lastRequest>>

\* the textarea's onChange: setPrompt(e.target.value)
SetPrompt(text) ==
    /\ InputsRendered
    /\ prompt' = text
    /\ lastEvent' = Event("setPrompt", NoOp, text)
    /\ UNCHANGED <<appState, imageFile, imagePreviewUrl, generatedVideoUrl, error,
                   loadingMessage, apiKey, tasks, trace, renders, lastRequest>>

-----------------------------------------------------------------------------
(* resetState *)

\* mutant: the reset forgets the prompt (line 76 left out)
ResetStateKeepsPrompt ==
    /\ ResetRendered
    /\ appState' = IDLE
    /\ imageFile' = Null
    /\ imagePreviewUrl' = Null
    /\ prompt' = prompt
    /\ generatedVideoUrl' = Null
    /\ error' = Null
    /\ loadingMessage' = ""
    /\ trace' = <<>>
    /\ renders' = <<Render(IDLE, "")>>
    /\ lastRequest' = Null
    /\ lastEvent' = Event("reset", NoOp, appState)
    /\ UNCHANGED <<apiKey, tasks>>

ResetState ==
    /\ ResetRendered
    /\ appState' = IDLE
    /\ imageFile' = Null
    /\ imagePreviewUrl' = Null
    /\ prompt' = ""
    /\ generatedVideoUrl' = Null
    /\ error' = Null
    /\ loadingMessage' = ""
    /\ trace' = <<>>
    /\ renders' = <<Render(IDLE, "")>>
    /\ lastRequest' = Null
    /\ lastEvent' = Event("reset", NoOp, appState)
    /\ UNCHANGED <<apiKey, tasks>>

-----------------------------------------------------------------------------
(* fileToBase64 *)

DataUrlHead == <<"d", "a", "t", "a", ":">>
DataUrlBase64 == <<";", "b", "a", "s", "e", "6", "4", ",">>

OctetStream ==
    <<"a", "p", "p", "l", "i", "c", "a", "t", "i", "o", "n", "/",
      "o", "c", "t", "e", "t", "-", "s", "t", "r", "e", "a", "m">>

\* FileReader.readAsDataURL: the reader's result once the load has succeeded (a file
\* of unknown type is given the type application/octet-stream)
ReadAsDataURL(file) ==
    DataUrlHead \o (IF file.type = <<>> THEN OctetStream ELSE file.type)
                \o DataUrlBase64 \o file.b64

\* index of the first occurrence of character c in s, 0 when there is none
RECURSIVE IndexOf(_, _, _)
IndexOf(s, c, from) ==
    IF from > Len(s) THEN 0
    ELSE IF s[from] = c THEN from
    ELSE IndexOf(s, c, from + 1)

\* String.prototype.split(c): the pieces of s between the occurrences of c
RECURSIVE Split(_, _)
Split(s, c) ==
    LET k == IndexOf(s, c, 1)
    IN  IF k = 0 THEN <<s>>
        ELSE <<SubSeq(s, 1, k - 1)>> \o Split(SubSeq(s, k + 1, Len(s)), c)

\* mutant: the data URL is resolved as it is, the prefix is not split off
FileToBase64WholeUrl(file) == Some(ReadAsDataURL(file))

\* reader.result.split(',')[1]: undefined when the result holds no comma
FileToBase64(file) ==
    LET pieces == Split(ReadAsDataURL(file), ",")
    IN  IF Len(pieces) >= 2 THEN Some(pieces[2]) ELSE Null

-----------------------------------------------------------------------------
(* Thrown values and the steps of the asynchronous task *)

\* a thrown or rejected value: an Error with a message, or a value without one
\* (the ProgressEvent of reader.onerror, a bare string)
ErrorOf(message) == [kind |-> "Error", message |-> message]
ReaderErrorEvent == [kind |-> "ProgressEvent", message |-> ""]

\* reader.error.message: what the browser says about the failed read; the event that
\* reader.onerror passes to reject does not carry it as .message
ReaderErrorText == "The file could not be read."

\* err.message, '' standing for an empty or undefined message
ErrMessage(err) == IF err.kind = "Error" THEN err.message ELSE ""

\* mutant: the message is shown without the fallback
DisplayMessageNoFallback(err) == ErrMessage(err)

\* err.message || 'An unknown error occurred during video generation.'
DisplayMessage(err) == IF TruthyStr(ErrMessage(err)) THEN ErrMessage(err) ELSE MsgUnknown

\* what the remote service can answer to a job creation or a status query
RemoteOps ==
    { [done |-> FALSE, uri |-> Null] } \cup
    { [done |-> TRUE, uri |-> u] : u \in {Null, Some(""), Some("https://v/1")} }

\* what a rejected remote call or fetch can throw
RemoteErrors == { ErrorOf("Request failed"), ErrorOf("") }

\* what the download fetch can answer
FetchResponses ==
    { [ok |-> TRUE, statusText |-> "OK"],
      [ok |-> FALSE, statusText |-> "Not Found"],
      [ok |-> FALSE, statusText |-> ""] }

\* the outcome of one continuation of the task: still pending at an await,
\* resolved, or rejected; with the calls it made on the way, in order
Pending(t, events, request) ==
    [outcome |-> "pending", task |-> t, events |-> events, err |-> ErrorOf(""),
     request |-> request]
Rejected(t, events, err) ==
    [outcome |-> "reject", task |-> t, events |-> events, err |-> err, request |-> Null]
Resolved(t, events) ==
    [outcome |-> "resolve", task |-> t, events |-> events, err |-> ErrorOf(""),
     request |-> Null]

Remove(seq, i) == SubSeq(seq, 1, i - 1) \o SubSeq(seq, i + 1, Len(seq))

IsProgress(e) == e.ev = "progress"

\* the try/catch of handleGenerateVideo around the awaited task, and the
\* setLoadingMessage calls made through onProgress
Commit(i, step) ==
    LET msgs == SelectSeq(step.events, IsProgress)
        newMsg == IF msgs = <<>> THEN loadingMessage ELSE msgs[Len(msgs)].arg
        newState == CASE step.outcome = "pending" -> appState
                      [] step.outcome = "resolve" -> SUCCESS
                      [] step.outcome = "reject" -> ERROR
    IN  /\ trace' = trace \o step.events
        /\ loadingMessage' = newMsg
        /\ appState' = newState
        /\ error' = IF step.outcome = "reject"
                      THEN Some(DisplayMessage(step.err)) ELSE error
        /\ generatedVideoUrl' = IF step.outcome = "resolve"
                                  THEN Some(CreateObjectURL("video"))
                                  ELSE generatedVideoUrl
        /\ tasks' = IF step.outcome = "pending"
                      THEN [tasks EXCEPT ![i] = step.task]
                      ELSE Remove(tasks, i)
        /\ renders' = IF renders[Len(renders)] = Render(newState, newMsg)
                        THEN renders
                        ELSE Append(renders, Render(newState, newMsg))
        /\ lastRequest' = IF IsNull(step.request) THEN lastRequest ELSE step.request
        /\ UNCHANGED <<imageFile, imagePreviewUrl, prompt, apiKey>>

-----------------------------------------------------------------------------
(* generateVideoFromImage and pollOperation *)

PollIntervalMs == 10000

\* progressMessages[messageIndex % progressMessages.length]
\* mutant: the modulus is one short of the list's length
NextProgressMessageShortCycle(messageIndex) ==
    progressMessages[(messageIndex % (Len(progressMessages) - 1)) + 1]

\* mutant: the index is incremented before it is used
NextProgressMessageIncrementFirst(messageIndex) ==
    progressMessages[((messageIndex + 1) % Len(progressMessages)) + 1]

NextProgressMessage(messageIndex) ==
    progressMessages[(messageIndex % Len(progressMessages)) + 1]

\* mutant: the link is used without the test of line 80
ExtractAndFetchUnchecked(t, events) ==
    Pending([t EXCEPT !.pc = "fetch"],
            events \o << Progress(MsgDownloading),
                         Call("fetch", (IF IsNull(t.op.uri) THEN "undefined" ELSE Val(t.op.uri))
                                       \o "&key=" \o Val(apiKey)) >>,
            Null)

\* mutant: the "downloading" message is reported before the link is tested
ExtractAndFetchMessageFirst(t, events) ==
    IF ~TruthyOpt(t.op.uri)
      THEN Rejected(t, Append(events, Progress(MsgDownloading)), ErrorOf(MsgNoLink))
      ELSE Pending([t EXCEPT !.pc = "fetch"],
                   events \o << Progress(MsgDownloading),
                                Call("fetch", Val(t.op.uri) \o "&key=" \o Val(apiKey)) >>,
                   Null)

\* lines 78-86: the download link of the completed operation, then the fetch
ExtractAndFetch(t, events) ==
    IF ~TruthyOpt(t.op.uri)
      THEN Rejected(t, events, ErrorOf(MsgNoLink))
      ELSE Pending([t EXCEPT !.pc = "fetch"],
                   events \o << Progress(MsgDownloading),
                                Call("fetch", Val(t.op.uri) \o "&key=" \o Val(apiKey)) >>,
                   Null)

\* mutant: the loop also goes on while the handle carries no link
PollLoopUntilLink(t, events) ==
    IF ~t.op.done \/ ~TruthyOpt(t.op.uri)
      THEN Pending([t EXCEPT !.pc = "sleep", !.messageIndex = t.messageIndex + 1],
                   Append(events, Progress(NextProgressMessage(t.messageIndex))),
                   Null)
      ELSE ExtractAndFetch(t, events)

\* the head of the while loop of pollOperation, entered with the task's
\* currentOperation: either one more round (message, then the 10 s timer) or
\* the return to generateVideoFromImage
PollLoop(t, events) ==
    IF ~t.op.done
      THEN Pending([t EXCEPT !.pc = "sleep", !.messageIndex = t.messageIndex + 1],
                   Append(events, Progress(NextProgressMessage(t.messageIndex))),
                   Null)
      ELSE ExtractAndFetch(t, events)

\* mutant: the credential test of line 57 is left out
GenerateVideoFromImageNoKeyTest(t, base64Image) ==
    Pending([t EXCEPT !.pc = "create", !.base64Image = base64Image],
            << Progress(MsgInitializing), Call("create", "veo-2.0-generate-001") >>,
            Some([prompt |-> t.prompt, imageBytes |-> base64Image,
                  mimeType |-> t.file.type]))

\* lines 57-73: the credential test, the first message, the job-creation call
GenerateVideoFromImage(t, base64Image) ==
    IF ~TruthyOpt(apiKey)
      THEN Rejected(t, <<>>, ErrorOf(MsgNoApiKey))
      ELSE Pending([t EXCEPT !.pc = "create", !.base64Image = base64Image],
                   << Progress(MsgInitializing), Call("create", "veo-2.0-generate-001") >>,
                   Some([prompt |-> t.prompt, imageBytes |-> base64Image,
                         mimeType |-> t.file.type]))

-----------------------------------------------------------------------------
(* handleGenerateVideo: the click, then the continuations of the task *)

NewTask(file, text) ==
    [pc |-> "encode", file |-> file, prompt |-> text, base64Image |-> Null,
     op |-> NoOp, messageIndex |-> 0]

\* mutant: only the image is tested
SubmitInvalidImageOnly == IsNull(imageFile)

\* !imageFile || !prompt
SubmitInvalid == IsNull(imageFile) \/ ~TruthyStr(prompt)

\* The handler is modelled as invocable whenever the button is rendered: its own
\* validation branch is what the disabled attribute of the button repeats.
HandleGenerateVideo ==
    /\ SubmitRendered
    /\ IF SubmitInvalid
         THEN /\ error' = Some(MsgValidation)
              /\ lastEvent' = Event("submit", NoOp, "invalid")
              /\ UNCHANGED <<appState, imageFile, imagePreviewUrl, prompt,
                             generatedVideoUrl, loadingMessage, apiKey, tasks, trace,
                             renders, lastRequest>>
         ELSE /\ Len(tasks) < MaxTasks
              /\ appState' = GENERATING
              /\ error' = Null
              /\ loadingMessage' = MsgPreparing
              /\ tasks' = Append(tasks, NewTask(Val(imageFile), prompt))
              /\ trace' = <<>>
              /\ renders' = <<Render(appState, loadingMessage),
                              Render(GENERATING, MsgPreparing)>>
              /\ lastRequest' = Null
              /\ lastEvent' = Event("submit", NoOp, "valid")
              /\ UNCHANGED <<imageFile, imagePreviewUrl, prompt, generatedVideoUrl,
                             apiKey>>

\* reader.onload: fileToBase64 resolves and generateVideoFromImage is entered.
\* After readAsDataURL the reader's result is always a string, so the rejection of
\* line 11 is not an outcome the browser produces and is not drawn here.
EncodeLoads(i) ==
    /\ tasks[i].pc = "encode"
    /\ Commit(i, GenerateVideoFromImage(tasks[i], FileToBase64(tasks[i].file)))
    /\ lastEvent' = Event("encodeLoads", NoOp, "")

\* reader.onerror: fileToBase64 rejects with the reader's event
EncodeFails(i) ==
    /\ tasks[i].pc = "encode"
    /\ Commit(i, Rejected(tasks[i], <<>>, ReaderErrorEvent))
    /\ lastEvent' = Event("encodeFails", NoOp, ReaderErrorText)

\* ai.models.generateVideos resolves with the job handle
CreateResolves(i, op) ==
    /\ tasks[i].pc = "create"
    /\ Commit(i, PollLoop([tasks[i] EXCEPT !.op = op], <<Progress(MsgStarted)>>))
    /\ lastEvent' = Event("createResolves", op, "")

CreateRejects(i, err) ==
    /\ tasks[i].pc = "create"
    /\ Commit(i, Rejected(tasks[i], <<>>, err))
    /\ lastEvent' = Event("createRejects", NoOp, err.message)

\* the 10 s timer fires and the status query is issued
TimerFires(i) ==
    /\ tasks[i].pc = "sleep"
    /\ tasks[i].messageIndex <= MaxPolls
    /\ Commit(i, Pending([tasks[i] EXCEPT !.pc = "poll"], <<Call("poll", "")>>, Null))
    /\ lastEvent' = Event("timerFires", tasks[i].op, "")

\* ai.operations.getVideosOperation resolves with the updated handle
PollResolves(i, op) ==
    /\ tasks[i].pc = "poll"
    /\ Commit(i, PollLoop([tasks[i] EXCEPT !.op = op], <<>>))
    /\ lastEvent' = Event("pollResolves", op, "")

\* mutant: the failed status query is not caught
PollRejectsAborts(i, err) ==
    /\ tasks[i].pc = "poll"
    /\ Commit(i, Rejected(tasks[i], <<>>, err))
    /\ lastEvent' = Event("pollRejects", tasks[i].op, err.message)

\* the status query throws: logged, the handle is kept, the loop goes on
PollRejects(i, err) ==
    /\ tasks[i].pc = "poll"
    /\ Commit(i, PollLoop(tasks[i], <<>>))
    /\ lastEvent' = Event("pollRejects", tasks[i].op, err.message)

\* mutant: the message leaves the status text out
DownloadErrorWithoutStatus(resp) == ErrorOf("Failed to download video")

\* new Error(`Failed to download video: ${videoResponse.statusText}`)
DownloadError(resp) == ErrorOf(MsgDownloadFailedPrefix \o resp.statusText)

\* the download fetch resolves with a response
FetchResolves(i, resp) ==
    /\ tasks[i].pc = "fetch"
    /\ Commit(i, IF ~resp.ok
                   THEN Rejected(tasks[i], <<>>, DownloadError(resp))
                   ELSE Pending([tasks[i] EXCEPT !.pc = "blob"], <<>>, Null))
    /\ lastEvent' = ResponseEvent("fetchResolves", tasks[i].op, resp)

\* the download fetch throws (no response at all)
FetchRejects(i, err) ==
    /\ tasks[i].pc = "fetch"
    /\ Commit(i, Rejected(tasks[i], <<>>, err))
    /\ lastEvent' = Event("fetchRejects", tasks[i].op, err.message)

\* videoResponse.blob() resolves: the asset is returned and shown
BlobResolves(i) ==
    /\ tasks[i].pc = "blob"
    /\ Commit(i, Resolved(tasks[i], <<>>))
    /\ lastEvent' = Event("blobResolves", tasks[i].op, "")

\* videoResponse.blob() rejects (the body could not be read)
BlobRejects(i, err) ==
    /\ tasks[i].pc = "blob"
    /\ Commit(i, Rejected(tasks[i], <<>>, err))
    /\ lastEvent' = Event("blobRejects", tasks[i].op, err.message)

-----------------------------------------------------------------------------
Next ==
    \/ HandleImageChangeNoFile
    \/ \E file \in Files : HandleImageChange(file)
    \/ \E text \in Prompts : SetPrompt(text)
    \/ HandleGenerateVideo
    \/ ResetState
    \/ \E i \in DOMAIN tasks : EncodeLoads(i)
    \/ \E i \in DOMAIN tasks : EncodeFails(i)
    \/ \E i \in DOMAIN tasks, op \in RemoteOps : CreateResolves(i, op)
    \/ \E i \in DOMAIN tasks, err \in RemoteErrors : CreateRejects(i, err)
    \/ \E i \in DOMAIN tasks : TimerFires(i)
    \/ \E i \in DOMAIN tasks, op \in RemoteOps : PollResolves(i, op)
    \/ \E i \in DOMAIN tasks, err \in RemoteErrors : PollRejects(i, err)
    \/ \E i \in DOMAIN tasks, resp \in FetchResponses : FetchResolves(i, resp)
    \/ \E i \in DOMAIN tasks, err \in RemoteErrors : FetchRejects(i, err)
    \/ \E i \in DOMAIN tasks : BlobResolves(i)
    \/ \E i \in DOMAIN tasks, err \in RemoteErrors : BlobRejects(i, err)

Spec == Init /\ [][Next]_vars

-----------------------------------------------------------------------------
(* The session with a remote job that completes and with asynchronous steps that
   all complete: the browser runs every continuation whose promise has settled,
   and the remote job reports completion to a successful status query at the
   latest at query number MaxPolls. *)

\* the status queries made so far in the run
PollsMade == Len(SelectSeq(trace, LAMBDA e : e.ev = "poll"))

LiveTaskStep ==
    \/ \E i \in DOMAIN tasks : EncodeLoads(i)
    \/ \E i \in DOMAIN tasks : EncodeFails(i)
    \/ \E i \in DOMAIN tasks, op \in RemoteOps : CreateResolves(i, op)
    \/ \E i \in DOMAIN tasks, err \in RemoteErrors : CreateRejects(i, err)
    \/ \E i \in DOMAIN tasks : TimerFires(i)
    \/ \E i \in DOMAIN tasks, op \in RemoteOps :
          /\ op.done \/ PollsMade < MaxPolls
          /\ PollResolves(i, op)
    \/ \E i \in DOMAIN tasks, err \in RemoteErrors :
          /\ PollsMade < MaxPolls
          /\ PollRejects(i, err)
    \/ \E i \in DOMAIN tasks, resp \in FetchResponses : FetchResolves(i, resp)
    \/ \E i \in DOMAIN tasks, err \in RemoteErrors : FetchRejects(i, err)
    \/ \E i \in DOMAIN tasks : BlobResolves(i)
    \/ \E i \in DOMAIN tasks, err \in RemoteErrors : BlobRejects(i, err)

LiveUserStep ==
    \/ HandleImageChangeNoFile
    \/ \E file \in Files : HandleImageChange(file)
    \/ \E text \in Prompts : SetPrompt(text)
    \/ HandleGenerateVideo
    \/ ResetState

LiveNext == LiveUserStep \/ LiveTaskStep

LiveSpec == Init /\ [][LiveNext]_vars /\ WF_vars(LiveTaskStep)

-----------------------------------------------------------------------------
(* fileToBase64 alone, applied to files of any type *)

\* calls of fileToBase64 in one behaviour
MaxEncodes == 2

TypeSvg == <<"i", "m", "a", "g", "e", "/", "s", "v", "g", "+", "x", "m", "l">>

\* the files fileToBase64 is applied to: every type with every content
EncodeFiles ==
    [ type : {TypePng, TypeJpeg, TypeSvg, TypePlain, TypeUnknown},
      b64 : { <<>>, <<"Q", "U", "I", "=">>, <<"Q", "Q", "=", "=">>, <<"/", "+", "8", "=">> } ]

\* the promise of fileToBase64(file) resolves; the call and its result are recorded
EncodeApply(file) ==
    /\ Len(trace) < MaxEncodes
    /\ trace' = Append(trace, [ev |-> "fileToBase64", file |-> file,
                               arg |-> FileToBase64(file)])
    /\ lastEvent' = FileEvent("fileToBase64", file, "")
    /\ UNCHANGED <<uiVars, apiKey, tasks, renders, lastRequest>>

EncodeNext == \E file \in EncodeFiles : EncodeApply(file)

EncodeSpec == Init /\ [][EncodeNext]_vars

-----------------------------------------------------------------------------
(* Observations used by the properties *)

\* the calls of one kind in the trace
CallsOf(kind) == SelectSeq(trace, LAMBDA e : e.ev = kind)

\* the network calls of the run: job creation, status queries, download
NetworkCalls == SelectSeq(trace, LAMBDA e : e.ev \in {"create", "poll", "fetch"})

\* the type begins with the six characters i m a g e /
HasImageType(type) ==
    /\ Len(type) >= 6
    /\ type[1] = "i" /\ type[2] = "m" /\ type[3] = "a"
    /\ type[4] = "g" /\ type[5] = "e" /\ type[6] = "/"

-----------------------------------------------------------------------------
(* C1 *)

\* C1: at most one generation task is in flight at any time, and whenever one is
\* in flight the session state is Generating.
C1_AtMostOneTaskInFlight ==
    /\ Len(tasks) <= 1
    /\ Len(tasks) = 1 => appState = GENERATING

\* a task is in flight, in the middle of its poll loop
C1_Witness ==
    /\ Len(tasks) = 1
    /\ tasks[1].pc = "poll"
    /\ Len(CallsOf("poll")) = 2
    /\ appState = GENERATING

(* C2 *)

\* C2: a submit taken when the image is missing or the prompt is empty (or both)
\* sets the validation message, leaves the state Idle, leaves image, preview and
\* prompt unchanged and starts no task (no encode, no network call).
C2_InvalidSubmitRejected ==
    [][ (lastEvent'.h = "submit" /\ (imageFile = Null \/ prompt = ""))
          => /\ appState = IDLE /\ appState' = IDLE
             /\ error' = Some(MsgValidation)
             /\ UNCHANGED <<imageFile, imagePreviewUrl, prompt>>
             /\ UNCHANGED <<tasks, trace, lastRequest, generatedVideoUrl>> ]_vars

\* a submit with an image but an empty prompt has been rejected
C2_Witness ==
    /\ lastEvent.h = "submit"
    /\ imageFile # Null
    /\ prompt = ""
    /\ error = Some(MsgValidation)
    /\ appState = IDLE

(* C3 *)

\* C3: a reset taken from Success or from Error leads to Idle with every session
\* field cleared.
C3_ResetClearsEverything ==
    [][ lastEvent'.h = "reset"
          => /\ appState \in {SUCCESS, ERROR}
             /\ appState' = IDLE
             /\ imageFile' = Null
             /\ imagePreviewUrl' = Null
             /\ prompt' = ""
             /\ generatedVideoUrl' = Null
             /\ error' = Null
             /\ loadingMessage' = "" ]_vars

\* a reset has been taken from Error and the session is cleared
C3_Witness ==
    /\ lastEvent.h = "reset"
    /\ lastEvent.text = ERROR
    /\ appState = IDLE
    /\ prompt = ""
    /\ error = Null

(* C4 *)

\* C4: selecting a file whose type does not start with "image/" leaves the preview
\* empty and the image cleared, sets the validation message and leaves the state
\* Idle, also when an image was selected before.
C4_NonImageFileRejected ==
    [][ (lastEvent'.h = "imageChange" /\ ~HasImageType(lastEvent'.file.type))
          => /\ appState = IDLE /\ appState' = IDLE
             /\ imageFile' = Null
             /\ imagePreviewUrl' = Null
             /\ error' = Some(MsgInvalidFile) ]_vars

\* a non-image file was picked while an image was selected, and the image is gone
C4_Witness ==
    /\ lastEvent.h = "imageChange"
    /\ lastEvent.text = "image before"
    /\ lastEvent.file.type = TypePlain
    /\ imageFile = Null
    /\ imagePreviewUrl = Null
    /\ error = Some(MsgInvalidFile)

(* C5 *)

\* the messages of the poll cycle: the onProgress calls after the "started" message
\* and before the "downloading" one
CyclicMessages ==
    SelectSeq(trace, LAMBDA e : e.ev = "progress"
                                 /\ e.arg \notin {MsgInitializing, MsgStarted, MsgDownloading})

\* the number of status queries among the first n entries of the trace
PollsBefore(n) == Len(SelectSeq(SubSeq(trace, 1, n), LAMBDA e : e.ev = "poll"))

\* the position in the fixed list of the message that goes before poll number i >= 0
ListEntry(i) == progressMessages[(i % 7) + 1]

\* C5: while the job handle has not reported completion the task neither returns
\* nor rejects: the session stays Generating, the task is in its poll loop, no
\* download is issued; and the message passed to onProgress before poll i (i >= 0)
\* is entry i mod 7 of the fixed 7-entry list.
C5_PollsForeverCyclingMessages ==
    /\ Len(progressMessages) = 7
    /\ \A k \in 1..Len(CyclicMessages) : CyclicMessages[k].arg = ListEntry(k - 1)
    /\ \A n \in 1..Len(trace) :
         trace[n].ev = "poll"
           => /\ n > 1
              /\ trace[n - 1] = Progress(ListEntry(PollsBefore(n - 1)))
    /\ ( /\ lastEvent.h \in {"createResolves", "timerFires", "pollResolves", "pollRejects"}
         /\ ~lastEvent.op.done )
         => /\ appState = GENERATING
            /\ Len(tasks) = 1
            /\ tasks[1].pc \in {"sleep", "poll"}
            /\ ~tasks[1].op.done
            /\ tasks[1].messageIndex = Len(CyclicMessages)
            /\ loadingMessage = ListEntry(tasks[1].messageIndex - 1)
            /\ Len(CallsOf("fetch")) = 0
            /\ generatedVideoUrl = Null /\ error = Null

\* the job has not completed after eight polls: the ninth message is the second of
\* the list again
C5_Witness ==
    /\ appState = GENERATING
    /\ Len(tasks) = 1
    /\ ~tasks[1].op.done
    /\ Len(CallsOf("poll")) = 8
    /\ Len(CyclicMessages) = 9
    /\ loadingMessage = progressMessages[2]

(* C6 *)

\* C6: a failed poll attempt does not end the task and does not reach the UI: the
\* job handle kept by the loop is unchanged, the session stays Generating with no
\* error, and the loop starts its next round (next message, timer armed for the
\* next status query).
C6_FailedPollIsSwallowed ==
    [][ lastEvent'.h = "pollRejects"
          => /\ Len(tasks) = 1 /\ Len(tasks') = 1
             /\ tasks'[1].op = tasks[1].op
             /\ tasks'[1].pc = "sleep"
             /\ tasks'[1].messageIndex = tasks[1].messageIndex + 1
             /\ appState = GENERATING /\ appState' = GENERATING
             /\ error' = Null
             /\ generatedVideoUrl' = Null
             /\ trace' = Append(trace, Progress(ListEntry(tasks[1].messageIndex))) ]_vars

\* the third status query in a row has failed and the task is waiting for the fourth
C6_Witness ==
    /\ lastEvent.h = "pollRejects"
    /\ Len(CallsOf("poll")) = 3
    /\ Len(tasks) = 1
    /\ tasks[1].pc = "sleep"
    /\ appState = GENERATING

(* C7 *)

\* the completed handle carries no usable link
LacksVideoReference(op) == op.done /\ (op.uri = Null \/ op.uri = Some(""))

\* C7: when the completed job's payload lacks a video reference the task rejects
\* with the missing-result error, no download is fetched, no further poll is made
\* and the session goes from Generating to Error.
C7_MissingResultIsTerminal ==
    [][ (lastEvent'.h \in {"createResolves", "pollResolves"}
         /\ LacksVideoReference(lastEvent'.op))
          => /\ appState = GENERATING /\ appState' = ERROR
             /\ error' = Some(MsgNoLink)
             /\ tasks' = <<>>
             /\ generatedVideoUrl' = Null
             /\ SelectSeq(trace', LAMBDA e : e.ev = "fetch") = <<>>
             /\ SelectSeq(trace', LAMBDA e : e.ev = "poll")
                  = SelectSeq(trace, LAMBDA e : e.ev = "poll") ]_vars

\* a status query answered "done" without a link, and the session is in Error
C7_Witness ==
    /\ lastEvent.h = "pollResolves"
    /\ lastEvent.op = [done |-> TRUE, uri |-> Null]
    /\ appState = ERROR
    /\ error = Some(MsgNoLink)
    /\ Len(CallsOf("fetch")) = 0

(* C8 *)

CredentialAbsent == apiKey = Null \/ apiKey = Some("")

C9_DownloadFailureToError ==
    [][ (lastEvent'.h = "fetchResolves" /\ ~lastEvent'.ok)
          => /\ appState = GENERATING /\ appState' = ERROR
             /\ error' = Some("Failed to download video: " \o lastEvent'.text)
             /\ generatedVideoUrl' = Null
             /\ tasks' = <<>> ]_vars

\* the download answered "Not Found" and the session is in Error
C9_Witness ==
    /\ lastEvent.h = "fetchResolves"
    /\ ~lastEvent.ok
    /\ lastEvent.text = "Not Found"
    /\ appState = ERROR
    /\ error = Some("Failed to download video: Not Found")
    /\ generatedVideoUrl = Null

(* C10 *)

\* the run in which the job completed on the first poll and the download succeeded
FirstPollHappyRun ==
    /\ appState = SUCCESS
    /\ Len(CallsOf("poll")) = 1

\* the states displayed since the submit, without repetitions
RECURSIVE Dedup(_)
Dedup(seq) ==
    IF Len(seq) <= 1 THEN seq
    ELSE IF seq[1] = seq[2] THEN Dedup(Tail(seq))
    ELSE <<seq[1]>> \o Dedup(Tail(seq))

StatesShown == Dedup([n \in 1..Len(renders) |-> renders[n].st])

\* the messages displayed while the state was Generating
MessagesShownGenerating ==
    LET gen == SelectSeq(renders, LAMBDA r : r.st = GENERATING)
    IN  [n \in 1..Len(gen) |-> gen[n].msg]

\* C10 as claimed: in that run the session goes Idle, Generating, Success and the
\* first progress message shown in Generating is "Warming up the AI generators...".
C10_FirstMessageShownIsWarmingUp ==
    FirstPollHappyRun
      => /\ StatesShown = <<IDLE, GENERATING, SUCCESS>>
         /\ generatedVideoUrl # Null
         /\ MessagesShownGenerating[1] = "Warming up the AI generators..."

\* C10 amended: in that run the session goes Idle, Generating, Success with a
\* playable asset; the messages shown in Generating are "Preparing your image...",
\* "Initializing video generation...", "Warming up the AI generators..." and
\* "Downloading generated video...", so "Warming up the AI generators..." is the
\* first message of the poll cycle and the third one shown.
C10_HappyRunStatesAndMessages ==
    FirstPollHappyRun
      => /\ StatesShown = <<IDLE, GENERATING, SUCCESS>>
         /\ generatedVideoUrl # Null
         /\ error = Null
         /\ MessagesShownGenerating
              = << "Preparing your image...", "Initializing video generation...",
                   "Warming up the AI generators...", "Downloading generated video..." >>
         /\ CyclicMessages = << Progress("Warming up the AI generators...") >>

\* the happy run has ended in Success
C10_Witness ==
    /\ FirstPollHappyRun
    /\ lastEvent.h = "blobResolves"
    /\ generatedVideoUrl # Null
    /\ Len(CallsOf("fetch")) = 1

(* C11 *)

\* the steps in which the task started by submit fails
FailureEvents ==
    {"encodeFails", "encodeLoads", "createRejects", "createResolves", "pollResolves",
     "fetchResolves", "fetchRejects", "blobRejects"}

\* the message of the failure that ended the run: the reader's, the thrown Error's,
\* or the text of the Error the client builds
FailureOwnMessage ==
    CASE lastEvent.h = "encodeLoads" -> MsgNoApiKey
      [] lastEvent.h \in {"createResolves", "pollResolves"} -> MsgNoLink
      [] lastEvent.h = "fetchResolves" -> "Failed to download video: " \o lastEvent.text
      [] OTHER -> lastEvent.text

\* C11: every failure of the task started by submit moves the session from
\* Generating to Error, and the message displayed in Error is the failure's own
\* message verbatim, for every failure kind.
C11_ErrorShowsFailureMessageVerbatim ==
    /\ lastEvent.h \in {"encodeFails", "createRejects", "fetchRejects", "blobRejects"}
         => appState = ERROR
    /\ (appState = ERROR /\ lastEvent.h \in FailureEvents)
         => error = Some(FailureOwnMessage)

(* C12 *)

\* what is left of s once everything up to and including its first comma is removed
AfterFirstComma(s) ==
    LET commas == {k \in 1..Len(s) : s[k] = ","}
        first == CHOOSE k \in commas : \A j \in commas : k <= j
    IN  [n \in 1..(Len(s) - first) |-> s[first + n]]

\* C12: fileToBase64 resolves with the same string for any two files of the same
\* byte content, whatever their types, and that string is the data URL without its
\* metadata prefix (everything up to and including the first comma), that is the
\* encoded content alone.
C12_EncodeDeterministicPrefixStripped ==
    /\ \A n \in DOMAIN trace :
         /\ trace[n].arg = Some(AfterFirstComma(ReadAsDataURL(trace[n].file)))
         /\ trace[n].arg = Some(trace[n].file.b64)
    /\ \A m, n \in DOMAIN trace :
         trace[m].file.b64 = trace[n].file.b64 => trace[m].arg = trace[n].arg

\* the same non-empty content was encoded under two different types
C12_Witness ==
    /\ Len(trace) = 2
    /\ trace[1].file.type = TypePng
    /\ trace[2].file.type = TypeUnknown
    /\ trace[1].file.b64 = <<"Q", "U", "I", "=">>
    /\ trace[2].file.b64 = <<"Q", "U", "I", "=">>
    /\ trace[1].arg = trace[2].arg

(* C13 *)

\* C13: the session state changes only from Idle to Generating (a submit with an
\* image and a non-empty prompt), from Generating to Success (the task resolves),
\* from Generating to Error (the task rejects) and from Success or Error to Idle
\* (a reset); no other change of state happens.
C13_OnlyListedTransitions ==
    [][ \/ appState' = appState
        \/ /\ appState = IDLE /\ appState' = GENERATING
           /\ lastEvent'.h = "submit"
           /\ imageFile # Null /\ prompt # ""
        \/ /\ appState = GENERATING /\ appState' = SUCCESS
           /\ lastEvent'.h = "blobResolves"
        \/ /\ appState = GENERATING /\ appState' = ERROR
           /\ lastEvent'.h \in FailureEvents
        \/ /\ appState \in {SUCCESS, ERROR} /\ appState' = IDLE
           /\ lastEvent'.h = "reset" ]_vars

\* a reset has brought the session from Success back to Idle
C13_Witness ==
    /\ lastEvent.h = "reset"
    /\ lastEvent.text = SUCCESS
    /\ appState = IDLE
    /\ generatedVideoUrl = Null

(* C14 *)

IsCyclic(e) ==
    e.ev = "progress" /\ e.arg \notin {MsgInitializing, MsgStarted, MsgDownloading}

\* the job handle the invocation holds, or held when it settled
HandleHeld == IF tasks # <<>> THEN tasks[1].op ELSE lastEvent.op

\* the order of the onProgress calls and the network calls of one invocation
C14_TraceOrdered ==
    /\ Len(trace) >= 1 => trace[1] = Progress(MsgInitializing)
    /\ Len(trace) >= 2 => trace[2].ev = "create"
    /\ Len(trace) >= 3 => trace[3] = Progress(MsgStarted)
    /\ \A n \in 1..Len(trace) :
         /\ trace[n] = Progress(MsgInitializing) => n = 1
         /\ trace[n].ev = "create" => n = 2
         /\ trace[n] = Progress(MsgStarted) => n = 3
         /\ IsCyclic(trace[n])
              => /\ n > 3
                 /\ trace[n - 1] = Progress(MsgStarted) \/ trace[n - 1].ev = "poll"
                 /\ n < Len(trace) => trace[n + 1].ev = "poll"
         /\ trace[n].ev = "poll"
              => /\ n > 4
                 /\ IsCyclic(trace[n - 1])
                 /\ ~IsCyclic(trace[n - 2])
         /\ trace[n] = Progress(MsgDownloading)
              => /\ n > 3
                 /\ trace[n - 1] = Progress(MsgStarted) \/ trace[n - 1].ev = "poll"
                 /\ \A k \in (n + 1)..Len(trace) : trace[k].ev # "poll"
                 /\ HandleHeld.done
                 /\ HandleHeld.uri # Null /\ HandleHeld.uri # Some("")
         /\ trace[n].ev = "fetch"
              => /\ n = Len(trace)
                 /\ trace[n - 1] = Progress(MsgDownloading)
    \* one cyclic message for each poll attempt, the message first
    /\ \A i \in DOMAIN tasks :
         /\ tasks[i].pc = "sleep" => Len(CyclicMessages) = Len(CallsOf("poll")) + 1
         /\ tasks[i].pc \in {"poll", "fetch", "blob"}
              => Len(CyclicMessages) = Len(CallsOf("poll"))
         /\ tasks[i].pc \in {"encode", "create"} => Len(CyclicMessages) = 0
    /\ tasks = <<>> => Len(CyclicMessages) = Len(CallsOf("poll"))
    \* a job that is done when it is created is never polled
    /\ (lastEvent.h = "createResolves" /\ lastEvent.op.done)
         => Len(CallsOf("poll")) = 0 /\ Len(CyclicMessages) = 0

\* C14: within one invocation the progress callbacks and the poll attempts are
\* ordered: "Initializing..." before the job creation, "Video generation started..."
\* before all polling, exactly one cyclic message before each poll attempt, no poll
\* and no cyclic message for a job that is done when created, "Downloading..." only
\* after the last poll and only with a video reference present, and no callback
\* after the invocation has resolved or rejected.
C14_CallbacksOrdered ==
    /\ []C14_TraceOrdered
    /\ [][ tasks = <<>>
             => \/ trace' = trace /\ loadingMessage' = loadingMessage
                \/ lastEvent'.h \in {"submit", "reset"} ]_vars

\* three polls were made, the third reported completion with a link, and the
\* download has been asked for
C14_Witness ==
    /\ Len(CallsOf("poll")) = 3
    /\ Len(CyclicMessages) = 3
    /\ Len(CallsOf("fetch")) = 1
    /\ trace[Len(trace) - 1] = Progress(MsgDownloading)
    /\ Len(tasks) = 1
    /\ tasks[1].pc = "fetch"

(* C15 *)

\* C15: when every started asynchronous step completes and the remote job reports
\* completion to a successful poll, every session that enters Generating reaches
\* Success or Error, whatever number of polls failed before; and the poll loop is
\* left exactly at the first successful poll that reports completion.
C15_GeneratingEventuallySettles ==
    /\ (appState = GENERATING) ~> (appState \in {SUCCESS, ERROR})
    /\ [][ (Len(tasks) = 1 /\ tasks[1].pc = "poll")
             => ( (tasks' = <<>> \/ tasks'[1].pc \notin {"sleep", "poll"})
                    <=> (lastEvent'.h = "pollResolves" /\ lastEvent'.op.done) ) ]_vars

\* the session has reached Success after four status queries
C15_Witness ==
    /\ appState = SUCCESS
    /\ Len(CallsOf("poll")) = 4
    /\ Len(CyclicMessages) = 4
    /\ generatedVideoUrl # Null
    /\ tasks = <<>>

(* C16 *)

\* C16: Success implies a result reference and no error message; Error implies a
\* non-empty error message and no result reference; Idle and Generating imply no
\* result reference; Generating implies no error message.
C16_NoImpossibleCombination ==
    /\ appState = SUCCESS => generatedVideoUrl # Null /\ error = Null
    /\ appState = ERROR
         => error # Null /\ error # Some("") /\ generatedVideoUrl = Null
    /\ appState \in {IDLE, GENERATING} => generatedVideoUrl = Null
    /\ appState = GENERATING => error = Null

\* the job creation was rejected with an Error without a message, and the session
\* shows the fallback text
C16_Witness ==
    /\ appState = ERROR
    /\ lastEvent.h = "createRejects"
    /\ lastEvent.text = ""
    /\ error = Some(MsgUnknown)
    /\ generatedVideoUrl = Null

(* C17 *)

\* C17: the selected image is null exactly when the preview is null, a selected
\* image has a type starting with "image/", and a file selection without a file
\* leaves image, preview, error and state unchanged.
C17_ImageAndPreviewTogether ==
    /\ [] /\ (imageFile = Null) <=> (imagePreviewUrl = Null)
          /\ imageFile # Null
               => /\ HasImageType(imageFile[1].type)
                  /\ imagePreviewUrl = Some(CreateObjectURL(imageFile[1]))
    /\ [][ lastEvent'.h = "imageChangeNoFile"
             => UNCHANGED <<imageFile, imagePreviewUrl, error, appState>> ]_vars

\* the file dialog was cancelled while an image was selected and an invalid submit
\* had left its message
C17_Witness ==
    /\ lastEvent.h = "imageChangeNoFile"
    /\ imageFile # Null
    /\ imagePreviewUrl # Null
    /\ error = Some(MsgValidation)
    /\ appState = IDLE

(* C18 *)

UserEvents == {"imageChange", "imageChangeNoFile", "setPrompt", "submit", "reset"}

\* C18: in Generating the selected image is non-null and the prompt non-empty, none
\* of image, preview and prompt changes while the state is Generating, no file
\* selection, prompt edit, submit or reset runs in Generating, and the mime type
\* and prompt sent with the job are those present at the submit.
C18_InputsFrozenWhileGenerating ==
    /\ [] ( appState = GENERATING
              => /\ imageFile # Null /\ prompt # ""
                 /\ \A i \in DOMAIN tasks :
                      tasks[i].file = imageFile[1] /\ tasks[i].prompt = prompt
                 /\ lastRequest # Null
                      => /\ lastRequest[1].prompt = prompt
                         /\ lastRequest[1].mimeType = imageFile[1].type )
    /\ [][ appState = GENERATING
             => /\ UNCHANGED <<imageFile, imagePreviewUrl, prompt>>
                /\ lastEvent'.h \notin UserEvents ]_vars

\* the job-creation call has been made with the prompt and the type of the submit
C18_Witness ==
    /\ appState = GENERATING
    /\ Len(tasks) = 1
    /\ tasks[1].pc = "create"
    /\ prompt = "a cat walking"
    /\ lastRequest # Null
    /\ lastRequest[1].prompt = "a cat walking"
    /\ lastRequest[1].mimeType = TypePng

====
